---------------------------- MODULE Spec2Model ----------------------------
(***************************************************************************)
(* A model of the repository explorer: the four agent tools of             *)
(* src/tools.py (directory listing, line-ranged file read, whole-word      *)
(* string search, semantic search over the session's vector index) and     *)
(* the 'Start Session' handler of src/main.py that builds that index.      *)
(*                                                                         *)
(* A Python str is a sequence of one-character strings; the three box      *)
(* drawing characters of the tree view are written by their code points.   *)
(* The platform is POSIX: os.sep = "/" and os.name # 'nt'.                 *)
(***************************************************************************)
EXTENDS Integers, Sequences, FiniteSets, TLC

VARIABLES
    fs,             \* the filesystem: normalised path -> what the OS holds there
    session_state,  \* st.session_state: attribute name -> value
    cache,          \* st.cache_data of index_repository: archive -> index
    call,           \* the last handler or tool invoked, with its arguments
    result          \* how that invocation ended: a returned str or a raised fault

vars == <<fs, session_state, cache, call, result>>

-----------------------------------------------------------------------------
(* Bounds of the model.                                                    *)

\* Most lines of a small file.
MaxLines == 3

-----------------------------------------------------------------------------
(* Characters and Python's str and list primitives.                        *)

sep == "/"
BoxTee == "U+251C"
BoxEll == "U+2514"
BoxDash == "U+2500"

\* Printable ASCII in code point order, from 32 (space) to 126; the quote,
\* the backslash and the backtick are written by their code points.
Printable ==
    <<" ", "!", "U+0022", "#", "$", "%", "&", "'", "(", ")", "*", "+", ",", "-",
      ".", "/", "0", "1", "2", "3", "4", "5", "6", "7", "8", "9", ":", ";",
      "<", "=", ">", "?", "@", "A", "B", "C", "D", "E", "F", "G", "H", "I",
      "J", "K", "L", "M", "N", "O", "P", "Q", "R", "S", "T", "U", "V", "W",
      "X", "Y", "Z", "[", "U+005C", "]", "^", "_", "U+0060", "a", "b", "c", "d", "e",
      "f", "g", "h", "i", "j", "k", "l", "m", "n", "o", "p", "q", "r", "s",
      "t", "u", "v", "w", "x", "y", "z", "{", "|", "}", "~">>

\* ord(c): control characters sort below space, the box characters above "~".
Ord(c) ==
    IF c \in {"\n", "\t", "\r"} THEN 10
    ELSE IF c \in {BoxTee, BoxEll, BoxDash} THEN 9472
    ELSE 31 + (CHOOSE i \in 1..Len(Printable) : Printable[i] = c)

Digits == {"0", "1", "2", "3", "4", "5", "6", "7", "8", "9"}
Upper == {Printable[i] : i \in 34..59}
Lower == {Printable[i] : i \in 66..91}

\* What the regex class \w matches.
IsWord(c) == c \in Digits \cup Upper \cup Lower \cup {"_"}

\* What str.strip() removes.
IsSpace(c) == c \in {" ", "\t", "\n", "\r"}

\* str.lower() on one character.
LowerChar(c) == IF c \in Upper THEN Printable[(Ord(c) - 31) + 32] ELSE c

lower(s) == [i \in 1..Len(s) |-> LowerChar(s[i])]

\* s < t in Python's str order (lexicographic by code point).
StrLess(s, t) ==
    \E k \in 1..(Len(t)) :
        /\ k <= Len(s) + 1
        /\ \A j \in 1..(k - 1) : s[j] = t[j]
        /\ \/ k = Len(s) + 1
           \/ Ord(s[k]) < Ord(t[k])

startswith(s, prefix) ==
    /\ Len(prefix) <= Len(s)
    /\ SubSeq(s, 1, Len(prefix)) = prefix

\* needle in haystack
Contains(needle, haystack) ==
    \E i \in 1..(Len(haystack) - Len(needle) + 1) :
        SubSeq(haystack, i, i + Len(needle) - 1) = needle

\* s.strip()
strip(s) ==
    LET keep == {i \in 1..Len(s) : ~IsSpace(s[i])}
    IN  IF keep = {} THEN <<>>
        ELSE SubSeq(s, CHOOSE i \in keep : \A j \in keep : i <= j,
                       CHOOSE i \in keep : \A j \in keep : j <= i)

\* glue.join(parts), halving the list so that long lists nest shallowly
RECURSIVE join(_, _)
join(glue, parts) ==
    IF Len(parts) = 0 THEN <<>>
    ELSE IF Len(parts) = 1 THEN parts[1]
    ELSE LET half == Len(parts) \div 2
         IN  join(glue, SubSeq(parts, 1, half)) \o glue
             \o join(glue, SubSeq(parts, half + 1, Len(parts)))

\* s * n
Repeat(s, n) == [i \in 1..(n * Len(s)) |-> s[((i - 1) % Len(s)) + 1]]

\* str(n) for n >= 0
RECURSIVE str(_)
str(n) ==
    IF n < 10 THEN <<Printable[17 + n]>>
    ELSE str(n \div 10) \o <<Printable[17 + (n % 10)]>>

\* An optional int: None, or Some(n).
None == <<>>
Some(n) == <<n>>

\* Python's truth value of an optional int: None and 0 are false.
Truthy(opt) == opt # None /\ opt[1] # 0

\* seq[start:stop] with Python's handling of negative and out-of-range bounds;
\* stop = None means through the end.
PySlice(seq, start, stop) ==
    LET n == Len(seq)
        clamp(i) == IF i < 0 THEN (IF n + i < 0 THEN 0 ELSE n + i)
                    ELSE (IF i > n THEN n ELSE i)
        lo == clamp(start)
        hi == IF stop = None THEN n ELSE clamp(stop[1])
    IN  SubSeq(seq, lo + 1, hi)

\* s[:limit]
Truncate(s, limit) == SubSeq(s, 1, IF Len(s) < limit THEN Len(s) ELSE limit)

\* How an invocation ends.
Return(s) == [kind |-> "return", value |-> s, error |-> "none"]
Raise(e) == [kind |-> "raise", value |-> <<>>, error |-> e]
NoResult == [kind |-> "none", value |-> <<>>, error |-> "none"]
NoCall == [tool |-> "none"]

-----------------------------------------------------------------------------
(* The filesystem the tools read.  fs maps a normalised path to a file     *)
(* (its permission, whether its bytes decode as UTF-8, and the lines       *)
(* readlines() gives, each with its terminator) or to a directory (its     *)
(* permission and its entries in the order the OS lists them).  A path     *)
(* outside DOMAIN fs does not exist.                                       *)

File(perm, utf8, lines) ==
    [kind |-> "file", perm |-> perm, utf8 |-> utf8, lines |-> lines, entries |-> <<>>]
Dir(perm, entries) ==
    [kind |-> "dir", perm |-> perm, utf8 |-> TRUE, lines |-> <<>>, entries |-> entries]
Entry(name, isdir) == [name |-> name, isdir |-> isdir]

\* s.split(sep): the parts of the two halves of s, the last part of the left
\* half and the first of the right being one part of s.
RECURSIVE split(_)
split(s) ==
    IF Len(s) = 0 THEN <<<<>>>>
    ELSE IF Len(s) = 1 THEN (IF s[1] = sep THEN <<<<>>, <<>>>> ELSE <<s>>)
    ELSE LET half == Len(s) \div 2
             left == split(SubSeq(s, 1, half))
             right == split(SubSeq(s, half + 1, Len(s)))
         IN  SubSeq(left, 1, Len(left) - 1)
             \o <<left[Len(left)] \o right[1]>>
             \o Tail(right)

\* One step of the loop of posixpath.normpath over the components.
NormStep(comp, new_comps, initial_slashes) ==
    LET n == Len(new_comps)
    IN  IF comp \in {<<>>, <<".">>} THEN new_comps
        ELSE IF \/ comp # <<".", ".">>
                \/ (initial_slashes = 0 /\ n = 0)
                \/ (n > 0 /\ new_comps[n] = <<".", ".">>)
        THEN Append(new_comps, comp)
        ELSE IF n > 0 THEN SubSeq(new_comps, 1, n - 1)
        ELSE new_comps

\* The loop, left to right.  The list is halved, and the left half's result
\* is computed before the right half starts (its length is asked for), so
\* that long paths nest shallowly.
RECURSIVE NormComps(_, _, _)
NormComps(comps, new_comps, initial_slashes) ==
    IF comps = <<>> THEN new_comps
    ELSE IF Len(comps) = 1 THEN NormStep(comps[1], new_comps, initial_slashes)
    ELSE LET half == Len(comps) \div 2
             left == NormComps(SubSeq(comps, 1, half), new_comps, initial_slashes)
         IN  IF Len(left) >= 0
             THEN NormComps(SubSeq(comps, half + 1, Len(comps)), left, initial_slashes)
             ELSE <<>>

\* os.path.normpath(path)
normpath(path) ==
    IF path = <<>> THEN <<".">>
    ELSE LET initial_slashes ==
                 IF ~startswith(path, <<sep>>) THEN 0
                 ELSE IF startswith(path, <<sep, sep>>) /\ ~startswith(path, <<sep, sep, sep>>)
                 THEN 2 ELSE 1
             joined == Repeat(<<sep>>, initial_slashes)
                       \o join(<<sep>>, NormComps(split(path), <<>>, initial_slashes))
         IN  IF joined = <<>> THEN <<".">> ELSE joined

\* os.path.isabs(path)
isabs(path) == startswith(path, <<sep>>)

\* os.path.join(a, b) for a relative b
pathjoin(a, b) ==
    IF a = <<>> \/ a[Len(a)] = sep THEN a \o b ELSE a \o <<sep>> \o b

Exists(f, path) == normpath(path) \in DOMAIN f
Lookup(f, path) == f[normpath(path)]

\* os.path.isdir(path)
isdir(f, path) == Exists(f, path) /\ Lookup(f, path).kind = "dir"

-----------------------------------------------------------------------------
(* load_file_contents                                                      *)

character_limit == 50000

NoTextReturned == <<"N", "o", " ", "t", "e", "x", "t", " ", "w", "a", "s", " ", "r", "e", "t", "u", "r", "n", "e", "d", ".">>
ErrorReadingFile == <<"E", "r", "r", "o", "r", " ", "r", "e", "a", "d", "i", "n", "g", " ", "f", "i", "l", "e", ":", " ">>

\* open(path, 'r', encoding='utf-8') and f.readlines(): the fault they raise,
\* or "none".
OpenFault(f, path) ==
    IF ~Exists(f, path) THEN "FileNotFoundError"
    ELSE LET node == Lookup(f, path)
         IN  IF node.kind = "dir" THEN "IsADirectoryError"
             ELSE IF node.perm # "ok" THEN "PermissionError"
             ELSE IF ~node.utf8 THEN "UnicodeDecodeError"
             ELSE "none"

\* The slice bound the code computes from line_end.
SliceStop(line_end) == IF Truthy(line_end) THEN Some(line_end[1] + 1) ELSE None

\* The open and the readlines stand before the try block, so their faults
\* leave the function; inside the try, joining a list of str raises nothing.
load_file_contents(f, path, line_start, line_end) ==
    IF OpenFault(f, path) # "none" THEN Raise(OpenFault(f, path))
    ELSE LET lines == Lookup(f, path).lines
             contents == PySlice(lines, line_start, SliceStop(line_end))
             formatted_results == Truncate(join(<<>>, contents), character_limit)
         IN  Return(IF formatted_results # <<>> THEN formatted_results
                    ELSE NoTextReturned)

LoadFileContents(path, line_start, line_end) ==
    /\ call' = [tool |-> "load_file_contents", path |-> path,
                line_start |-> line_start, line_end |-> line_end]
    /\ result' = load_file_contents(fs, path, line_start, line_end)
    /\ UNCHANGED <<fs, session_state, cache>>

-----------------------------------------------------------------------------
(* The file read on its own: every small file, and one whose first line    *)
(* alone passes the character limit, read over every line range.           *)

ReadLines == {<<"a", "\n">>, <<"b", " ", "c", "\n">>, <<"\n">>}

\* A line of character_limit + 1 characters, terminator included.
LongLine == Repeat(<<"x">>, character_limit) \o <<"\n">>

WholeFiles == UNION {[1..n -> ReadLines] : n \in 0..MaxLines}

\* The files read: lines all terminated, or the last one without its
\* terminator, or a first line longer than the limit.
ReadFiles ==
    WholeFiles
    \cup {Append(lines, <<"d">>) : lines \in {l \in WholeFiles : Len(l) < MaxLines}}
    \cup {<<LongLine, <<"b", "\n">>>>}

ReadPath == <<"f">>

ReadFilesystems ==
    {ReadPath :> File("ok", TRUE, lines) : lines \in ReadFiles}
    \cup {ReadPath :> File("denied", TRUE, <<<<"a", "\n">>>>),
          ReadPath :> File("ok", FALSE, <<>>),
          ReadPath :> Dir("ok", <<>>),
          <<"g">> :> File("ok", TRUE, <<<<"a", "\n">>>>)}

ReadPaths == {ReadPath, <<"d", "/", ".", ".", "/", "f">>}
LineStarts == (-1)..(MaxLines + 1)
LineEnds == {None} \cup {Some(n) : n \in (-1)..(MaxLines + 1)}

EmptySession == [n \in {} |-> 0]

InitRead ==
    /\ fs \in ReadFilesystems
    /\ session_state = EmptySession
    /\ cache = EmptySession
    /\ call = NoCall
    /\ result = NoResult

\* One behaviour is one invocation: the tool keeps no state between calls.
NextRead ==
    /\ call = NoCall
    /\ \E path \in ReadPaths, line_start \in LineStarts, line_end \in LineEnds :
            LoadFileContents(path, line_start, line_end)

SpecRead == InitRead /\ [][NextRead]_vars

\* Lines a..b (0-based, inclusive) of a file, concatenated.
RECURSIVE LinesConcat(_, _, _)
LinesConcat(lines, a, b) ==
    IF a > b THEN <<>> ELSE lines[a + 1] \o LinesConcat(lines, a + 1, b)

Reading == call.tool = "load_file_contents"

\* C1: for a readable UTF-8 file of n lines and 0 <= line_start <= line_end < n
\* (line_end = 0 included) the read returns exactly lines line_start..line_end
\* concatenated and cut to 50,000 characters; with line_end None and
\* 0 <= line_start < n it returns lines line_start..n-1, cut the same way.
C1_ReadReturnsExactSlice ==
    (Reading /\ OpenFault(fs, call.path) = "none") =>
        LET lines == Lookup(fs, call.path).lines
            n == Len(lines)
            a == call.line_start
        IN  /\ (call.line_end # None /\ 0 <= a /\ a <= call.line_end[1]
                    /\ call.line_end[1] < n) =>
                   result = Return(Truncate(LinesConcat(lines, a, call.line_end[1]),
                                            50000))
            /\ (call.line_end = None /\ 0 <= a /\ a < n) =>
                   result = Return(Truncate(LinesConcat(lines, a, n - 1), 50000))

\* C2: when the file cannot be opened or decoded, the read returns a string
\* that starts with "Error reading file: " and raises nothing.
C2_ReadFailureIsInlineString ==
    (Reading /\ OpenFault(fs, call.path) # "none") =>
        /\ result.kind = "return"
        /\ startswith(result.value, <<"E", "r", "r", "o", "r", " ", "r", "e", "a", "d", "i", "n", "g", " ", "f", "i", "l", "e", ":", " ">>)

-----------------------------------------------------------------------------
(* list_directory_contents                                                 *)

Indent == <<" ", " ", " ", " ">>
LastConnector == <<"U+2514", "U+2500", "U+2500", " ">>
MidConnector == <<"U+251C", "U+2500", "U+2500", " ">>
PermissionDeniedLine == <<" ", " ", " ", " ", "U+2514", "U+2500", "U+2500", " ", "[", "p", "e", "r", "m", "i", "s", "s", "i", "o", "n", " ", "d", "e", "n", "i", "e", "d", "]">>

\* root and hierarchy of a normalised path (the Unix-like and relative
\* branches; parts[0] of an absolute POSIX path is empty).
PathRoot(path) ==
    LET parts == split(path)
    IN  IF isabs(path) THEN <<sep>>
        ELSE IF parts[1] # <<>> THEN parts[1] \o <<sep>> ELSE <<".">>

Hierarchy(path) == Tail(split(path))

\* The loop over enumerate(hierarchy): one line per non-empty folder,
\* indented by its position in hierarchy.
AncestorLines(hierarchy) ==
    LET named == {k \in 1..Len(hierarchy) : hierarchy[k] # <<>>}
        nth(j) == CHOOSE k \in named : Cardinality({m \in named : m < k}) = j - 1
    IN  [j \in 1..Cardinality(named) |->
            LET depth == nth(j) - 1
                folder == hierarchy[nth(j)]
            IN  Repeat(Indent, depth) \o LastConnector \o folder \o <<sep>>]

BaseIndent(hierarchy) ==
    Repeat(Indent, Cardinality({k \in 1..Len(hierarchy) : hierarchy[k] # <<>>}))

\* os.listdir(path): the fault it raises, or "none".
ListFault(f, path) ==
    IF ~Exists(f, path) THEN "FileNotFoundError"
    ELSE LET node == Lookup(f, path)
         IN  IF node.kind # "dir" THEN "NotADirectoryError"
             ELSE IF node.perm # "ok" THEN "PermissionError"
             ELSE "none"

\* os.listdir(path): the names, in the order the OS gives them.
listdir(f, path) ==
    LET entries == Lookup(f, path).entries
    IN  [i \in 1..Len(entries) |-> entries[i].name]

\* [e for e in names if not e.startswith(".")]
Visible(names) == SelectSeq(names, LAMBDA e : ~startswith(e, <<".">>))

\* A sort that forgets the key: names in plain str order, capitals first.
RECURSIVE SortCaseSensitive(_)
SortCaseSensitive(names) ==
    IF names = <<>> THEN <<>>
    ELSE LET rest == SortCaseSensitive(SubSeq(names, 1, Len(names) - 1))
             x == names[Len(names)]
             after == {i \in 1..Len(rest) : StrLess(x, rest[i])}
             at == IF after = {} THEN Len(rest) + 1
                   ELSE CHOOSE i \in after : \A j \in after : i <= j
         IN  SubSeq(rest, 1, at - 1) \o <<x>> \o SubSeq(rest, at, Len(rest))

\* list.sort(key=lambda e: e.lower()): a stable sort, so names whose keys
\* are equal keep the order the OS listed them in.
RECURSIVE SortByLower(_)
SortByLower(names) ==
    IF names = <<>> THEN <<>>
    ELSE LET rest == SortByLower(SubSeq(names, 1, Len(names) - 1))
             x == names[Len(names)]
             after == {i \in 1..Len(rest) : StrLess(lower(x), lower(rest[i]))}
             at == IF after = {} THEN Len(rest) + 1
                   ELSE CHOOSE i \in after : \A j \in after : i <= j
         IN  SubSeq(rest, 1, at - 1) \o <<x>> \o SubSeq(rest, at, Len(rest))

\* The loop over enumerate(entries).
EntryLines(f, path, entries, base_indent) ==
    [i \in 1..Len(entries) |->
        LET is_last == (i = Len(entries))
            connector == IF is_last THEN LastConnector ELSE MidConnector
            full == pathjoin(path, entries[i])
            suffix == IF isdir(f, full) THEN <<sep>> ELSE <<>>
        IN  base_indent \o connector \o entries[i] \o suffix]

\* The lines of the tree view, before they are joined and cut.
TreeLines(f, norm) ==
    LET hierarchy == Hierarchy(norm)
        lines == <<PathRoot(norm)>> \o AncestorLines(hierarchy)
        base_indent == BaseIndent(hierarchy)
    IN  IF ListFault(f, norm) = "PermissionError"
        THEN Append(lines, base_indent \o PermissionDeniedLine)
        ELSE lines \o EntryLines(f, norm, SortByLower(Visible(listdir(f, norm))),
                                 base_indent)

\* A listing without the except clause: PermissionError leaves the tool too.
ListWithoutExcept(f, path) ==
    LET norm == normpath(path)
    IN  IF ListFault(f, norm) # "none"
        THEN Raise(ListFault(f, norm))
        ELSE Return(Truncate(join(<<"\n">>, TreeLines(f, norm)), character_limit))

\* Only PermissionError is caught; any other fault of os.listdir leaves the tool.
list_directory_contents(f, path) ==
    LET norm == normpath(path)
    IN  IF ListFault(f, norm) \notin {"none", "PermissionError"}
        THEN Raise(ListFault(f, norm))
        ELSE Return(Truncate(join(<<"\n">>, TreeLines(f, norm)), character_limit))

ListDirectoryContents(path) ==
    /\ call' = [tool |-> "list_directory_contents", path |-> path]
    /\ result' = list_directory_contents(fs, path)
    /\ UNCHANGED <<fs, session_state, cache>>

-----------------------------------------------------------------------------
(* The directory listing on its own: a target directory with every small   *)
(* listing, under relative, absolute and very deep paths, listable or not. *)

\* Most entries of a listed directory.
MaxEntries == 3

\* Segments of the deep path: its ancestor lines alone pass the character limit.
DeepDepth == 160

ListNames == {<<"a">>, <<"A">>, <<"b", ".", "p", "y">>, <<".", "e", "n", "v">>, <<"C">>}

\* What a directory can hold: distinct names, in any order, each a file or
\* a directory.
Listings ==
    UNION {{[i \in 1..n |-> Entry(l[i][1], l[i][2])] :
               l \in {m \in [1..n -> ListNames \X BOOLEAN] :
                         \A i, j \in 1..n : m[i][1] = m[j][1] => i = j}} :
           n \in 0..MaxEntries}

SampleListing == <<Entry(<<"b", ".", "p", "y">>, FALSE), Entry(<<".", "e", "n", "v">>, FALSE), Entry(<<"A">>, TRUE)>>

DeepPath == join(<<sep>>, [i \in 1..DeepDepth |-> <<"d">>])

ListTarget == <<"a", "/", "b">>
OtherTargets == {<<"/", "a", "/", "b">>, <<"/", "/", "a">>, <<".">>, <<"/">>, DeepPath}

\* A filesystem holding the target directory, its entries, and one file
\* inside each of its subdirectories.
DirFs(target, perm, listing) ==
    LET child(i) == normpath(pathjoin(target, listing[i].name))
        kids == {child(i) : i \in 1..Len(listing)}
        dirs == {child(i) : i \in {j \in 1..Len(listing) : listing[j].isdir}}
        inner == {pathjoin(d, <<"z">>) : d \in dirs}
    IN  (target :> Dir(perm, listing))
        @@ [p \in kids \cup inner |->
               IF p \in dirs THEN Dir("ok", <<Entry(<<"z">>, FALSE)>>)
               ELSE File("ok", TRUE, <<>>)]

ListFilesystems ==
    {DirFs(ListTarget, "ok", l) : l \in Listings}
    \cup {DirFs(t, "ok", l) : t \in OtherTargets, l \in {<<>>, SampleListing}}
    \cup {DirFs(t, "denied", SampleListing) : t \in OtherTargets \cup {ListTarget}}
    \cup {ListTarget :> File("ok", TRUE, <<>>)}

ListPaths ==
    {ListTarget, <<"a", "/", "/", "b", "/">>, <<".", "/", "a", "/", "c", "/", ".", ".", "/", "b">>, <<"a", "/", "x">>, <<>>} \cup OtherTargets

InitList ==
    /\ fs \in ListFilesystems
    /\ session_state = EmptySession
    /\ cache = EmptySession
    /\ call = NoCall
    /\ result = NoResult

NextList ==
    /\ call = NoCall
    /\ \E path \in ListPaths : ListDirectoryContents(path)

SpecList == InitList /\ [][NextList]_vars

Listing == call.tool = "list_directory_contents"

endswith(s, suffix) ==
    /\ Len(suffix) <= Len(s)
    /\ SubSeq(s, Len(s) - Len(suffix) + 1, Len(s)) = suffix

\* The target exists as a directory that may not be listed.
TargetDenied ==
    /\ Exists(fs, call.path)
    /\ Lookup(fs, call.path).kind = "dir"
    /\ Lookup(fs, call.path).perm = "denied"

Unindented(line) ==
    LET ink == {i \in 1..Len(line) : line[i] # " "}
    IN  IF ink = {} THEN <<>>
        ELSE SubSeq(line, CHOOSE i \in ink : \A j \in ink : i <= j, Len(line))

\* The target exists as a directory that may be listed.
TargetListable ==
    /\ Exists(fs, call.path)
    /\ Lookup(fs, call.path).kind = "dir"
    /\ Lookup(fs, call.path).perm = "ok"

\* C10: for a listable directory D the entry lines, before the cut, are
\* exactly the immediate entries of D whose name does not start with '.', one
\* line each, in case-insensitive ascending name order, the last behind
\* '└── ' and the others behind '├── ', a name followed by the separator if and
\* only if it is a directory; the output is the first 50,000 characters of
\* the ancestor lines and these lines.
C10_EntryLinesAreTheVisibleEntries ==
    (Listing /\ TargetListable) =>
        LET norm == normpath(call.path)
            held == Lookup(fs, call.path).entries
            shown == {k \in 1..Len(held) : held[k].name[1] # "."}
            lines == TreeLines(fs, norm)
            ancestors == 1 + Cardinality({k \in 1..Len(Hierarchy(norm)) :
                                             Hierarchy(norm)[k] # <<>>})
            entry(i) == Unindented(lines[ancestors + i])
            glyph(i) == IF i = Cardinality(shown) THEN <<"U+2514", "U+2500", "U+2500", " ">> ELSE <<"U+251C", "U+2500", "U+2500", " ">>
            text(i, k) == glyph(i) \o held[k].name
                          \o (IF held[k].isdir THEN <<"/">> ELSE <<>>)
        IN  /\ result = Return(Truncate(join(<<"\n">>, lines), 50000))
            /\ Len(lines) = ancestors + Cardinality(shown)
            /\ \A k \in shown : \E i \in 1..Cardinality(shown) : entry(i) = text(i, k)
            /\ \A i, j \in 1..Cardinality(shown) : \A k, m \in shown :
                   (i < j /\ entry(i) = text(i, k) /\ entry(j) = text(j, m)) =>
                       ~StrLess(lower(held[m].name), lower(held[k].name))

\* C10's case: a directory holding a hidden entry, a subdirectory and a
\* file, listed.
C10_Witness ==
    /\ Listing
    /\ TargetListable
    /\ result.kind = "return"
    /\ LET held == Lookup(fs, call.path).entries
       IN  /\ \E k \in 1..Len(held) : held[k].name[1] = "."
           /\ \E k \in 1..Len(held) : held[k].isdir /\ held[k].name[1] # "."
           /\ \E k \in 1..Len(held) : ~held[k].isdir /\ held[k].name[1] # "."

-----------------------------------------------------------------------------
(* perform_string_search                                                   *)
(*                                                                         *)
(* The query goes into the pattern as it is: r'\b' + query + r'\b'.  The   *)
(* pattern language is modelled for queries over QueryChars: a letter or a *)
(* space stands for itself, "." for any character but the newline, "+"     *)
(* repeats the item before it one or more times, "(" opens a group.        *)

QueryChars == {"a", "b", ".", "+", "("}

search_results_limit == 100

NoExactMatches == <<"N", "o", " ", "e", "x", "a", "c", "t", " ", "m", "a", "t", "c", "h", "e", "s", " ", "f", "o", "u", "n", "d", " ", "f", "o", "r", " ", "q", "u", "e", "r", "y", ":", " ">>

\* re.compile accepts the pattern: every "(" of such a query stays unclosed
\* (missing ")"), and a "+" needs an item before it to repeat, which the
\* leading \b is not.  (A "+" right after a "+" is read differently by
\* different versions of re; no such query is asked.)
PatternValid(query) ==
    /\ \A i \in 1..Len(query) : query[i] # "("
    /\ query[1] # "+"

\* The items of a valid pattern between its two \b: what each matches and
\* whether a "+" repeats it.
PatternItems(query) ==
    LET atoms == {i \in 1..Len(query) : query[i] # "+"}
        nth(j) == CHOOSE i \in atoms : Cardinality({m \in atoms : m < i}) = j - 1
    IN  [j \in 1..Cardinality(atoms) |->
            [atom |-> query[nth(j)],
             plus |-> nth(j) < Len(query) /\ query[nth(j) + 1] = "+"]]

\* \b between position p and p + 1 of the line (p = 0 is the start).
Boundary(line, p) ==
    LET before == p >= 1 /\ IsWord(line[p])
        after == p < Len(line) /\ IsWord(line[p + 1])
    IN  before # after

AtomMatches(atom, c) == IF atom = "." THEN c # "\n" ELSE c = atom

\* Where a match of one item that starts after position p can end.
ItemEnds(item, line, p) ==
    IF item.plus
    THEN {q \in (p + 1)..Len(line) :
             \A j \in (p + 1)..q : AtomMatches(item.atom, line[j])}
    ELSE IF p < Len(line) /\ AtomMatches(item.atom, line[p + 1]) THEN {p + 1}
    ELSE {}

\* Where a match of items k.. that starts at one of the positions can end.
RECURSIVE MatchEnds(_, _, _, _)
MatchEnds(items, k, line, positions) ==
    IF k > Len(items) \/ positions = {} THEN positions
    ELSE MatchEnds(items, k + 1, line,
                   UNION {ItemEnds(items[k], line, p) : p \in positions})

\* re.search(r'\b' + query + r'\b', line) finds a match (the pattern is valid).
RegexSearch(query, line) ==
    \E p \in 0..Len(line) :
        /\ Boundary(line, p)
        /\ \E q \in MatchEnds(PatternItems(query), 1, line, {p}) : Boundary(line, q)

\* os.walk(top): a (root, dirs, files) triple for top, then the walks of its
\* subdirectories in the order listed; a directory that cannot be listed
\* (missing, not a directory, denied) yields nothing.
RECURSIVE walk(_, _)
walk(f, top) ==
    IF ListFault(f, top) # "none" THEN <<>>
    ELSE LET entries == Lookup(f, top).entries
             names(keep) == [i \in 1..Len(keep) |-> keep[i].name]
             dirs == names(SelectSeq(entries, LAMBDA e : e.isdir))
             files == names(SelectSeq(entries, LAMBDA e : ~e.isdir))
             below[k \in 0..Len(dirs)] ==
                 IF k = 0 THEN <<>>
                 ELSE below[k - 1] \o walk(f, pathjoin(top, dirs[k]))
         IN  <<[root |-> top, dirs |-> dirs, files |-> files]>> \o below[Len(dirs)]

SearchResult(file_path, line_number, line_content) ==
    [file_path |-> file_path, line_number |-> line_number,
     line_content |-> line_content]

\* The body of the try block for one file: nothing when the file cannot be
\* opened or decoded; otherwise the lines that hold the query and that the
\* pattern finds.  An invalid pattern raises at the first line that holds
\* the query, and the bare except gives up the rest of the file.
FileResults(f, file_path, query) ==
    IF OpenFault(f, file_path) # "none" THEN <<>>
    ELSE LET lines == Lookup(f, file_path).lines
             holding == {i \in 1..Len(lines) : Contains(query, lines[i])}
             scanned == IF PatternValid(query) THEN 1..Len(lines)
                        ELSE {i \in 1..Len(lines) : \A j \in holding : i < j}
             found == {i \in scanned \cap holding : RegexSearch(query, lines[i])}
             nth(j) == CHOOSE i \in found : Cardinality({m \in found : m < i}) = j - 1
         IN  [j \in 1..Cardinality(found) |->
                 SearchResult(file_path, nth(j), strip(lines[nth(j)]))]

\* The files the inner loop opens under one root: those not named ".…".
OpenedFiles(triple) ==
    LET files == SelectSeq(triple.files, LAMBDA file : ~startswith(file, <<".">>))
    IN  [i \in 1..Len(files) |-> pathjoin(triple.root, files[i])]

\* The file paths in the order the two loops reach them.
SearchedFiles(f, path) ==
    LET triples == walk(f, path)
        upto[k \in 0..Len(triples)] ==
            IF k = 0 THEN <<>> ELSE upto[k - 1] \o OpenedFiles(triples[k])
    IN  upto[Len(triples)]

\* search_results when the loops end.
SearchResults(f, query, path) ==
    LET files == SearchedFiles(f, path)
        upto[k \in 0..Len(files)] ==
            IF k = 0 THEN <<>> ELSE upto[k - 1] \o FileResults(f, files[k], query)
    IN  upto[Len(files)]

Metadata(r) ==
    join(<<"\n">>, <<<<"f", "i", "l", "e", "_", "p", "a", "t", "h", ":", " ">> \o r.file_path,
                  <<"l", "i", "n", "e", "_", "n", "u", "m", "b", "e", "r", ":", " ">> \o str(r.line_number),
                  <<"l", "i", "n", "e", "_", "c", "o", "n", "t", "e", "n", "t", ":", " ">> \o r.line_content>>)

\* A search that returns every result, without the cut to the limit.
AllResults(search_results) == search_results

\* search_results[:search_results_limit]
FirstResults(search_results) ==
    SubSeq(search_results, 1,
           IF Len(search_results) < search_results_limit THEN Len(search_results)
           ELSE search_results_limit)

FormatResults(results) ==
    join(<<"\n", "\n">>, [i \in 1..Len(results) |-> Metadata(results[i])])

perform_string_search(f, query, path) ==
    LET search_results == SearchResults(f, query, path)
        formatted_results == FormatResults(FirstResults(search_results))
    IN  Return(IF formatted_results # <<>> THEN formatted_results
               ELSE NoExactMatches \o query)

PerformStringSearch(query, path) ==
    /\ call' = [tool |-> "perform_string_search", query |-> query, path |-> path]
    /\ result' = perform_string_search(fs, query, path)
    /\ UNCHANGED <<fs, session_state, cache>>

-----------------------------------------------------------------------------
(* The string search on its own: small trees with every small file, trees  *)
(* with hidden, unreadable and undecodable files and with subdirectories,  *)
(* and trees with more matching lines than the limit, searched for every   *)
(* short query.                                                            *)

\* Most lines of a small searched file.
MaxSearchLines == 2

\* Most characters of a query.
MaxQuery == 2

\* Lines of each file of the big tree: two such files pass the limit.
BigLines == 60

\* Characters of each of the two segments of the long root path.
LongName == 255

SearchLines == {<<"a", "\n">>, <<"x", "a", ".", " ", "a", "b", "\n">>, <<"a", "(", "b", "\n">>, <<"a", "+", "b", "\n">>, <<"x", "a", ".", "b", " ", "a", "a", "b", "\n">>}

SearchFiles == UNION {[1..n -> SearchLines] : n \in 0..MaxSearchLines}

Queries ==
    {q \in UNION {[1..n -> QueryChars] : n \in 1..MaxQuery} :
        \A i \in 1..(Len(q) - 1) : ~(q[i] = "+" /\ q[i + 1] = "+")}
    \cup {<<"a", ".", "b">>, <<"a", "+", "b">>}

SearchRoot == <<"r">>
LongRoot == Repeat(<<"d">>, LongName) \o <<sep>> \o Repeat(<<"d">>, LongName)

\* A directory and the nodes of its entries: items are <<name, node>> pairs
\* in the order the OS lists them.
NodeFs(path, items) ==
    (path :> Dir("ok", [i \in 1..Len(items) |->
                           Entry(items[i][1], items[i][2].kind = "dir")]))
    @@ [p \in {pathjoin(path, items[i][1]) : i \in 1..Len(items)} |->
           LET i == CHOOSE i \in 1..Len(items) : pathjoin(path, items[i][1]) = p
           IN  items[i][2]]

Text(lines) == File("ok", TRUE, lines)

MixedTree ==
    NodeFs(SearchRoot,
           <<<<<<".", "h">>, Text(<<<<"a", "\n">>>>)>>,
             <<<<"u">>, File("denied", TRUE, <<<<"a", "\n">>>>)>>,
             <<<<"n">>, File("ok", FALSE, <<>>)>>,
             <<<<"f">>, Text(<<<<"x", "a", ".", " ", "a", "b", "\n">>, <<"a", "\n">>, <<"a", "(", "b", "\n">>>>)>>>>)

DeepTree ==
    NodeFs(pathjoin(SearchRoot, <<"s">>), <<<<<<"g">>, Text(<<<<"a", "+", "b", "\n">>, <<"a", "\n">>>>)>>>>)
    @@ NodeFs(pathjoin(SearchRoot, <<".", "g", "i", "t">>), <<<<<<"c">>, Text(<<<<"a", "\n">>>>)>>>>)
    @@ NodeFs(SearchRoot,
              <<<<<<"x">>, Dir("denied", <<>>)>>,
                <<<<"s">>, Dir("ok", <<>>)>>,
                <<<<"f">>, Text(<<<<"b", "\n">>, <<"a", "\n">>>>)>>,
                <<<<".", "g", "i", "t">>, Dir("ok", <<>>)>>>>)

BigTree(root) ==
    NodeFs(root,
           <<<<<<"f">>, Text([i \in 1..BigLines |-> <<"a", "\n">>])>>,
             <<<<"g">>, Text([i \in 1..BigLines |-> <<"b", " ", "a", "\n">>])>>>>)

SearchFilesystems ==
    {NodeFs(SearchRoot, <<<<<<"f">>, Text(lines)>>>>) : lines \in SearchFiles}
    \cup {MixedTree, DeepTree, BigTree(SearchRoot), BigTree(LongRoot)}

SearchPaths == {SearchRoot, <<"r", "/">>, <<"q">>, LongRoot}

InitSearch ==
    /\ fs \in SearchFilesystems
    /\ session_state = EmptySession
    /\ cache = EmptySession
    /\ call = NoCall
    /\ result = NoResult

NextSearch ==
    /\ call = NoCall
    /\ \E query \in Queries, path \in SearchPaths : PerformStringSearch(query, path)

SpecSearch == InitSearch /\ [][NextSearch]_vars

Searching == call.tool = "perform_string_search"

\* The hits of the returned text.
ReturnedHits == FirstResults(SearchResults(fs, call.query, call.path))

\* The line a hit points at.
HitLine(hit) == Lookup(fs, hit.file_path).lines[hit.line_number]

\* The query stands in the line, character for character, at i..i+Len-1, with
\* on each side a non-word character or the line edge, or a word boundary.
LiteralWholeWordAt(query, line, i) ==
    LET last == i + Len(query) - 1
    IN  /\ SubSeq(line, i, last) = query
        /\ (i = 1 \/ ~IsWord(line[i - 1]) \/ Boundary(line, i - 1))
        /\ (last = Len(line) \/ ~IsWord(line[last + 1]) \/ Boundary(line, last))

\* The test the code applies to a line.
CodeAccepts(query, line) ==
    Contains(query, line) /\ PatternValid(query) /\ RegexSearch(query, line)

\* The query as a literal between two word-boundary anchors: what matching
\* \b + the escaped query + \b against the line finds.
DirectAccepts(query, line) ==
    \E i \in 1..(Len(line) - Len(query) + 1) :
        /\ SubSeq(line, i, i + Len(query) - 1) = query
        /\ Boundary(line, i - 1)
        /\ Boundary(line, i + Len(query) - 1)

\* The lines of the non-hidden readable files under path that a test
\* accepts (direct: the literal whole-word test; otherwise the code's), in
\* traversal order (files in os.walk order, lines ascending), as hits.
AcceptedLines(f, query, path, direct) ==
    LET Accepts(q, line) == IF direct THEN DirectAccepts(q, line)
                            ELSE CodeAccepts(q, line)
        files == SearchedFiles(f, path)
        readable == {k \in 1..Len(files) : OpenFault(f, files[k]) = "none"}
        lines(k) == Lookup(f, files[k]).lines
        pairs == UNION {{<<k, i>> : i \in {n \in 1..Len(lines(k)) :
                                            Accepts(query, lines(k)[n])}} :
                        k \in readable}
        Before(a, b) == a[1] < b[1] \/ (a[1] = b[1] /\ a[2] < b[2])
        nth(j) == CHOOSE p \in pairs : Cardinality({o \in pairs : Before(o, p)}) = j - 1
    IN  [j \in 1..Cardinality(pairs) |->
            SearchResult(files[nth(j)[1]], nth(j)[2], strip(lines(nth(j)[1])[nth(j)[2]]))]

\* The text the search returns for a list of hits.
TextOf(hits, query) ==
    IF hits = <<>> THEN <<"N", "o", " ", "e", "x", "a", "c", "t", " ", "m", "a", "t", "c", "h", "e", "s", " ", "f", "o", "u", "n", "d", " ", "f", "o", "r", " ", "q", "u", "e", "r", "y", ":", " ">> \o query
    ELSE join(<<"\n", "\n">>,
              [i \in 1..Len(hits) |->
                  <<"f", "i", "l", "e", "_", "p", "a", "t", "h", ":", " ">> \o hits[i].file_path
                  \o <<"\n", "l", "i", "n", "e", "_", "n", "u", "m", "b", "e", "r", ":", " ">> \o str(hits[i].line_number)
                  \o <<"\n", "l", "i", "n", "e", "_", "c", "o", "n", "t", "e", "n", "t", ":", " ">> \o hits[i].line_content])

\* C3: every hit names a file and a 1-based line number whose line holds the
\* query, taken as a literal string, as a whole word, and the hit's
\* line_content is that line stripped; the returned text is these hits.
C3_HitsHoldTheLiteralQuery ==
    Searching =>
        /\ result = Return(TextOf(ReturnedHits, call.query))
        /\ \A k \in 1..Len(ReturnedHits) :
               LET hit == ReturnedHits[k]
               IN  /\ OpenFault(fs, hit.file_path) = "none"
                   /\ hit.line_number \in 1..Len(Lookup(fs, hit.file_path).lines)
                   /\ hit.line_content = strip(HitLine(hit))
                   /\ \E i \in 1..(Len(HitLine(hit)) - Len(call.query) + 1) :
                          LiteralWholeWordAt(call.query, HitLine(hit), i)

\* C4: the hits of the two-stage check are, in set and order, those of
\* testing every line of every non-hidden readable file directly for a
\* whole-word occurrence of the literal query: no such line is dropped, and no
\* query makes files be skipped.
C4_TwoStageEqualsDirectTest ==
    Searching =>
        SearchResults(fs, call.query, call.path)
            = AcceptedLines(fs, call.query, call.path, TRUE)

C6_OutputWithinLimit ==
    result.kind = "return" => Len(result.value) <= 50000

-----------------------------------------------------------------------------
(* perform_semantic_search                                                 *)

similarity_top_k == 5

\* The session holds the attribute.
Has(session, attribute) == attribute \in DOMAIN session

\* The rankings a retriever can give: the embedding distances are the
\* provider's, so any min(top_k, n) distinct chunks in any order.
Rankings(index) ==
    LET n == Len(index.chunks)
        k == IF n < similarity_top_k THEN n ELSE similarity_top_k
    IN  {r \in [1..k -> 1..n] : \A i, j \in 1..k : r[i] = r[j] => i = j}

\* A semantic search that answers an unset index with an empty text.
SemanticSearchOrEmpty(session, provider_up, ranking) ==
    IF ~Has(session, "index") THEN Return(<<>>)
    ELSE IF ~provider_up THEN Raise("APIConnectionError")
    ELSE Return(join(<<"\n", "\n">>, [i \in 1..Len(ranking) |->
                                  session["index"].chunks[ranking[i]]]))

\* st.session_state.index raises AttributeError while the attribute is
\* unset; retrieve() embeds the query, which fails when the provider is down.
perform_semantic_search(session, provider_up, ranking) ==
    IF ~Has(session, "index") THEN Raise("AttributeError")
    ELSE IF ~provider_up THEN Raise("APIConnectionError")
    ELSE Return(join(<<"\n", "\n">>, [i \in 1..Len(ranking) |->
                                  session["index"].chunks[ranking[i]]]))

\* The chat input is enabled once the session is ready; the agent's tools
\* run only from a prompt.
Ready == Has(session_state, "ready") /\ session_state["ready"]

PerformSemanticSearch(query) ==
    /\ Ready
    /\ \E provider_up \in BOOLEAN :
       \E ranking \in (IF Has(session_state, "index")
                       THEN Rankings(session_state["index"]) ELSE {<<>>}) :
           /\ call' = [tool |-> "perform_semantic_search", query |-> query]
           /\ result' = perform_semantic_search(session_state, provider_up, ranking)
    /\ UNCHANGED <<fs, session_state, cache>>

-----------------------------------------------------------------------------
(* The 'Start Session' handler, index_repository and open_zipfile          *)

RepositoryDir == <<"r", "e", "p", "o", "s", "i", "t", "o", "r", "y">>

\* An uploaded archive: its name, whether it is a readable zip, and its
\* members (<<name, node>> pairs of the top directory).
Archive(name, iszip, members) == [name |-> name, iszip |-> iszip, members |-> members]

\* shutil.rmtree('repository/'): every path at or below the directory goes.
rmtree(f, dir) ==
    LET kept == {p \in DOMAIN f : ~(p = dir \/ startswith(p, dir \o <<sep>>))}
    IN  [p \in kept |-> f[p]]

\* open_zipfile: the old repository directory is removed first; then the
\* archive is opened, which fails for a file that is no zip, and extracted.
open_zipfile(f, file) ==
    LET cleared == IF Exists(f, RepositoryDir) THEN rmtree(f, RepositoryDir) ELSE f
    IN  IF ~file.iszip THEN [failed |-> TRUE, fs |-> cleared]
        ELSE [failed |-> FALSE, fs |-> NodeFs(RepositoryDir, file.members) @@ cleared]

\* What SimpleDirectoryReader loads: the text of every file whose name does
\* not start with "."; it raises when there is none.
Documents(f) ==
    LET triples == walk(f, RepositoryDir)
        upto[k \in 0..Len(triples)] ==
            IF k = 0 THEN <<>> ELSE upto[k - 1] \o OpenedFiles(triples[k])
        files == upto[Len(triples)]
    IN  [i \in 1..Len(files) |-> join(<<>>, Lookup(f, files[i]).lines)]

\* The nodes of the splitter: every document here is shorter than one
\* chunk, and an empty document gives no node.
Nodes(documents) == SelectSeq(documents, LAMBDA text : text # <<>>)

BuildSteps == <<"extract", "load", "chunk", "embed", "store">>

\* The step at which the build stops: an archive that is no zip fails at
\* "extract", one without a visible file at "load"; failure names the later
\* step the environment makes fail ("none": no step).
Stopped(opened, documents, failure) ==
    IF opened.failed THEN "extract"
    ELSE IF documents = <<>> THEN "load"
    ELSE failure

\* What the build has in hand when it stops: the steps before the failing
\* one have taken effect.
BuildOutcome(opened, documents, zip_file, stopped) ==
    [failure |-> stopped,
     fs |-> opened.fs,
     index |-> [source |-> zip_file.name,
                chunks |-> IF stopped \in {"extract", "load"} THEN <<>>
                           ELSE Nodes(documents)],
     cached |-> FALSE]

LoadAndIndex(opened, documents, zip_file, failure) ==
    BuildOutcome(opened, documents, zip_file, Stopped(opened, documents, failure))

\* RepositoryParser('repository/') and its two calls on what was extracted.
ParseRepository(opened, zip_file, failure) ==
    LoadAndIndex(opened, Documents(opened.fs), zip_file, failure)

\* The body of index_repository, run on a cache miss.
BuildIndex(f, zip_file, failure) ==
    ParseRepository(open_zipfile(f, zip_file), zip_file, failure)

\* index_repository under st.cache_data: a call with an archive seen before
\* returns the stored index and runs nothing.
index_repository(f, stored, zip_file, failure) ==
    IF zip_file.name \in DOMAIN stored
    THEN [failure |-> "none", fs |-> f, index |-> stored[zip_file.name], cached |-> TRUE]
    ELSE BuildIndex(f, zip_file, failure)

\* A handler that installs whatever index_repository had in hand when a
\* step failed.
SessionInstallingPartial(session, agent, do_index, built) ==
    LET with_agent == ("github_agent" :> agent) @@ session
    IN  IF ~do_index THEN ("ready" :> TRUE) @@ with_agent
        ELSE IF built.failure # "none" THEN ("index" :> built.index) @@ with_agent
        ELSE ("ready" :> TRUE) @@ ("index" :> built.index) @@ with_agent

\* The else branch of the handler: the agent is set, then (if asked) the
\* index, which is assigned only when index_repository returns, then ready.
SessionAfterStart(session, agent, do_index, built) ==
    LET with_agent == ("github_agent" :> agent) @@ session
    IN  IF ~do_index THEN ("ready" :> TRUE) @@ with_agent
        ELSE IF built.failure # "none" THEN with_agent
        ELSE ("ready" :> TRUE) @@ ("index" :> built.index) @@ with_agent

StartCall(key, uploaded, do_index) ==
    [tool |-> "start_session", key |-> key, do_index |-> do_index,
     uploaded |-> IF uploaded = <<>> THEN <<>> ELSE uploaded[1].name]

Shown(kind, message) == [kind |-> kind, value |-> message, error |-> "none"]

\* The else branch with the outcome of index_repository in hand.
Started(uploaded, do_index, agent, built) ==
    /\ session_state' = SessionAfterStart(session_state, agent, do_index, built)
    /\ fs' = IF do_index THEN built.fs ELSE fs
    /\ cache' = IF do_index /\ built.failure = "none" /\ ~built.cached
                THEN (uploaded[1].name :> built.index) @@ cache
                ELSE cache
    /\ result' = IF do_index /\ built.failure # "none"
                 THEN Raise(built.failure)
                 ELSE IF do_index
                 THEN Shown("done", <<"R", "e", "p", "o", "s", "i", "t", "o", "r", "y", " ", "i", "n", "d", "e", "x", "e", "d", "!">>)
                 ELSE Shown("done", <<>>)

\* The handler of the 'Start Session' button.  key: an API key is entered;
\* uploaded: <<>> or <<archive>>; failure: the build step the environment
\* makes fail.  index_repository runs only when the box is ticked.
StartSession(key, uploaded, do_index, agent, failure) ==
    /\ call' = StartCall(key, uploaded, do_index)
    /\ IF ~key
       THEN /\ result' = Shown("warning", <<"P", "l", "e", "a", "s", "e", " ", "e", "n", "t", "e", "r", " ", "y", "o", "u", "r", " ", "O", "p", "e", "n", "A", "I", " ", "k", "e", "y", ".">>)
            /\ UNCHANGED <<fs, session_state, cache>>
       ELSE IF uploaded = <<>>
       THEN /\ result' = Shown("warning", <<"P", "l", "e", "a", "s", "e", " ", "u", "p", "l", "o", "a", "d", " ", "a", " ", "Z", "I", "P", " ", "f", "i", "l", "e", ".">>)
            /\ UNCHANGED <<fs, session_state, cache>>
       ELSE Started(uploaded, do_index, agent,
                    index_repository(fs, cache, uploaded[1], failure))

-----------------------------------------------------------------------------
(* The session: 'Start Session' presses with any inputs, and the agent's   *)
(* tool calls once the session is ready.                                   *)

RepoA ==
    Archive(<<"a", ".", "z", "i", "p">>, TRUE,
            <<<<<<"m", ".", "p", "y">>, Text(<<<<"a", "\n">>, <<"b", " ", "a", "\n">>>>)>>,
              <<<<"n", ".", "m", "d">>, Text(<<<<"b", "\n">>>>)>>>>)

RepoB == Archive(<<"b", ".", "z", "i", "p">>, TRUE, <<<<<<"k", ".", "p", "y">>, Text(<<<<"a", ".", "b", "\n">>>>)>>>>)

\* Its one file is empty: the index built from it has no chunk.
RepoEmpty == Archive(<<"e", ".", "z", "i", "p">>, TRUE, <<<<<<"e">>, Text(<<>>)>>>>)

\* Only a hidden file: the reader finds nothing to load.
RepoHidden == Archive(<<"h", ".", "z", "i", "p">>, TRUE, <<<<<<".", "e", "n", "v">>, Text(<<<<"a", "\n">>>>)>>>>)

NotZip == Archive(<<"x", ".", "t", "x", "t">>, FALSE, <<>>)

Uploads == {<<>>} \cup {<<zip>> : zip \in {RepoA, RepoB, RepoEmpty, RepoHidden, NotZip}}

\* The steps after loading that the environment can make fail.
Failures == {"none", "chunk", "embed", "store"}

Agents == {"gpt-4.1-mini"}

SessionQuery == <<"a">>
SessionFile == <<"r", "e", "p", "o", "s", "i", "t", "o", "r", "y", "/", "m", ".", "p", "y">>

\* The process starts with no session attribute and an empty cache; the
\* working directory may hold the repository/ of an earlier run.
Init ==
    /\ fs \in {EmptySession, NodeFs(RepositoryDir, RepoB.members)}
    /\ session_state = EmptySession
    /\ cache = EmptySession
    /\ call = NoCall
    /\ result = NoResult

PressStart ==
    \E key \in BOOLEAN, uploaded \in Uploads, do_index \in BOOLEAN,
       agent \in Agents, failure \in Failures :
        StartSession(key, uploaded, do_index, agent, failure)

AskSemantic == PerformSemanticSearch(SessionQuery)

AskString == Ready /\ PerformStringSearch(SessionQuery, RepositoryDir)

AskList == Ready /\ ListDirectoryContents(RepositoryDir)

AskRead == Ready /\ \E line_end \in {None, Some(0)} :
                        LoadFileContents(SessionFile, 0, line_end)

Next ==
    \/ PressStart
    \/ AskSemantic
    \/ AskString
    \/ AskList
    \/ AskRead

Spec == Init /\ [][Next]_vars

SemanticCall == call.tool = "perform_semantic_search"

\* C7: in every reachable session state, a perform_semantic_search call made
\* while no index build has completed (the cache is empty, the session has
\* no index) ends in the AttributeError fault and never in a returned
\* string, and a call on a built index never ends in that fault: a built
\* index that holds no chunk returns the empty string instead.
C7_NoIndexFaultsAndIsDistinct ==
    SemanticCall =>
        /\ (DOMAIN cache = {} \/ ~Has(session_state, "index"))
               => result = Raise("AttributeError")
        /\ Has(session_state, "index") => result # Raise("AttributeError")
        /\ (Has(session_state, "index") /\ session_state["index"].chunks = <<>>)
               => result \in {Return(<<>>), Raise("APIConnectionError")}

\* A ready session that never built an index was asked a semantic query.
C7_Witness ==
    /\ SemanticCall
    /\ Ready
    /\ DOMAIN cache = {}
    /\ result.kind = "raise"

\* A built index without a chunk answered a semantic query with "".
C7_WitnessZeroSnippets ==
    /\ SemanticCall
    /\ Has(session_state, "index")
    /\ result = Return(<<>>)

IndexHandle(session) == IF Has(session, "index") THEN <<session["index"]>> ELSE <<>>

BuildFailed == call.tool = "start_session" /\ result.kind = "raise"

\* C9: a 'Start Session' step whose index build fails, at whichever step,
\* leaves the session's index handle exactly as it was before the step:
\* unset, or the index built before.
C9_FailedBuildKeepsIndexHandle ==
    [][BuildFailed' => IndexHandle(session_state') = IndexHandle(session_state)]_vars

\* A build failed at the embedding step while an earlier index was active.
C9_Witness ==
    /\ BuildFailed
    /\ result.error = "embed"
    /\ Has(session_state, "index")

\* Every step of the build is seen to fail.
C9_FailsAtExtract == BuildFailed /\ result.error = "extract"
C9_FailsAtLoad == BuildFailed /\ result.error = "load"
C9_FailsAtChunk == BuildFailed /\ result.error = "chunk"
C9_FailsAtStore == BuildFailed /\ result.error = "store"

-----------------------------------------------------------------------------
(* The active index and the extracted repository                           *)

\* The paths at or below repository/.
RepositoryPaths(f) ==
    {p \in DOMAIN f : p = RepositoryDir \/ startswith(p, RepositoryDir \o <<sep>>)}

\* repository/ holds the members of the archive, and nothing else.
HoldsArchive(f, zip_file) ==
    LET tree == NodeFs(RepositoryDir, zip_file.members)
    IN  /\ RepositoryPaths(f) = DOMAIN tree
        /\ \A p \in DOMAIN tree : f[p] = tree[p]

\* The uploaded archives an index can name as its source.
SourceOf(index) == {u[1] : u \in {v \in Uploads : v # <<>> /\ v[1].name = index.source}}

\* 'Start Session' with the box ticked has run to its end.
IndexedStart ==
    /\ call.tool = "start_session"
    /\ call.do_index
    /\ result.kind = "done"

\* C11: after a 'Start Session' with indexing enabled, whatever presses came
\* before it and whether or not the index came from the cache, the session's
\* active index is the one built from the archive whose contents are
\* extracted in repository/.
C11_ActiveIndexIsOfExtractedArchive ==
    IndexedStart =>
        /\ Has(session_state, "index")
        /\ \A zip_file \in SourceOf(session_state["index"]) : HoldsArchive(fs, zip_file)

\* A press that runs the body of index_repository (the archive is not in
\* the cache) does leave the index and repository/ in step.
C11_BuiltIndexIsOfExtractedArchive ==
    [][(IndexedStart' /\ call'.uploaded \notin DOMAIN cache)
          => \A zip_file \in SourceOf(session_state'["index"]) : HoldsArchive(fs', zip_file)]_vars

\* The index of one archive is active while repository/ holds another.
C11_StaleIndexReached ==
    /\ IndexedStart
    /\ call.uploaded = RepoA.name
    /\ HoldsArchive(fs, RepoB)

=============================================================================
